---- MODULE Spec2Model ----
(***************************************************************************)
(* Model of the question-answering agent of chijiang/allinoneagents:       *)
(* the LangGraph loop of src/app/agent/graph.py (generate_response <->     *)
(* process_tool_calls), the tool-call extractor, the tool registry and the *)
(* /chat handler of src/app/main.py.                                       *)
(* Spec is one request; SpecServer is two requests in flight at once, with *)
(* callers that may stop waiting.                                          *)
(*                                                                         *)
(* Text is modelled as a sequence of tokens.  A token is a string; the     *)
(* marker phrases, the braces, the comma and every JSON member are one     *)
(* token each, so that substring search, str.split, the regular expression *)
(* and json.loads of the source can be computed token by token.  TLA+      *)
(* strings are ASCII, so the Chinese marker phrases are written in pinyin. *)
(***************************************************************************)
EXTENDS Integers, Sequences, FiniteSets, TLC

VARIABLES
    state,          \* the AgentState channels of the graph (a dict: key -> value)
    pc,             \* where the request is: GENERATING, DISPATCHING, DONE, RESPONDED
    output,         \* response.content of the llm.invoke of the latest generation
                    \* step (a local of _generate_response: empty once the
                    \* next node has run)
    local_results,  \* the list tool_results built by the latest _process_tool_calls
    outcomes,       \* what each call of the latest dispatch did: none / ok / raise
    lastStep,       \* the node that ran last: start, generate, dispatch, or
                    \* generate_failed, dispatch_failed when it raised
    genCount,       \* completed calls of llm.invoke
    dispatchCount,  \* completed runs of _process_tool_calls
    response,       \* what /chat gave the caller
    cancelled,      \* the caller of the request has stopped waiting
    peer            \* the other request in flight, if any: its suspended
                    \* coroutine of chat, as the record of its locals

vars == <<state, pc, output, local_results, outcomes, lastStep, genCount,
          dispatchCount, response, cancelled, peer>>

---------------------------------------------------------------------------
(* Bounds of the exploration *)

\* generation steps explored per request (the code itself has no cap)
MaxGen == 3
\* candidate objects the model stub writes into one tool-request section
MaxObjs == 2

---------------------------------------------------------------------------
(* Tokens *)

\* graph.py:76 "工具调用"
StartMarker == "gongju-diaoyong"
\* graph.py:79 "行动后思考"
EndMarker == "xingdonghou-sikao"
\* main.py:103 "回答："
AnswerMarker == "huida:"
LBrace == "{"
RBrace == "}"
Comma == ","
Newline == "\n"
Word == "txt"

\* complete JSON members  "key": value  with a value that holds no brace
NameSearch == "\"name\":\"search\""
NameZhihu == "\"name\":\"zhihu_hot\""
NameCalc == "\"name\":\"calc\""
NameList == "\"name\":[\"a\"]"
InputX == "\"input\":\"x\""
QueryX == "\"query\":\"x\""
\* the key and colon of a member whose value is a nested object
InputKey == "\"input\":"

Members == {NameSearch, NameZhihu, NameCalc, NameList, InputX, QueryX}

\* the decoded key of a member
MemberKey(tok) ==
    CASE tok \in {NameSearch, NameZhihu, NameCalc, NameList} -> "name"
      [] tok = InputX -> "input"
      [] tok = QueryX -> "query"

\* the decoded (Python) value of a member
ListValue == "['a']"
EmptyDict == "{}"
MemberValue(tok) ==
    CASE tok = NameSearch -> "search"
      [] tok = NameZhihu -> "zhihu_hot"
      [] tok = NameCalc -> "calc"
      [] tok = NameList -> ListValue
      [] tok = InputX -> "x"
      [] tok = QueryX -> "x"

---------------------------------------------------------------------------
(* str operations of Python on token sequences *)

\* sub in s
Contains(s, tok) == \E i \in 1..Len(s) : s[i] = tok

\* s.find(tok): the first index, 0 when absent
Find(s, tok) ==
    IF Contains(s, tok)
    THEN CHOOSE i \in 1..Len(s) : s[i] = tok /\ \A j \in 1..(i-1) : s[j] # tok
    ELSE 0

\* s.split(sep): the list of the parts between the occurrences of sep
RECURSIVE Split(_, _)
Split(s, sep) ==
    IF ~Contains(s, sep)
    THEN <<s>>
    ELSE LET i == Find(s, sep)
         IN  <<SubSeq(s, 1, i - 1)>> \o Split(SubSeq(s, i + 1, Len(s)), sep)

Whitespace == {Newline, " "}

\* s.strip()
RECURSIVE Strip(_)
Strip(s) ==
    IF s = <<>> THEN s
    ELSE IF s[1] \in Whitespace THEN Strip(Tail(s))
    ELSE IF s[Len(s)] \in Whitespace THEN Strip(SubSeq(s, 1, Len(s) - 1))
    ELSE s

---------------------------------------------------------------------------
(* The tool-call extractor, graph.py:71-94 *)

\* re.findall(r'({[^{}]*})', s): the leftmost non-overlapping runs that open
\* with a brace, hold no brace and close with a brace
RECURSIVE FindAll(_)
FindAll(s) ==
    IF s = <<>> THEN <<>>
    ELSE IF s[1] # LBrace THEN FindAll(Tail(s))
    ELSE LET braces == {j \in 2..Len(s) : s[j] \in {LBrace, RBrace}}
         IN  IF braces = {} THEN <<>>
             ELSE LET j == CHOOSE k \in braces : \A m \in braces : k <= m
                  IN  IF s[j] = RBrace
                      THEN <<SubSeq(s, 1, j)>> \o FindAll(SubSeq(s, j + 1, Len(s)))
                      ELSE FindAll(Tail(s))

\* what stands between the braces of a regex match
Content(pattern) == SubSeq(pattern, 2, Len(pattern) - 1)

\* json.loads(pattern) does not raise JSONDecodeError: the content is empty or
\* members separated by commas
JsonValid(pattern) ==
    LET c == Content(pattern)
    IN  \/ c = <<>>
        \/ /\ Len(c) % 2 = 1
           /\ \A i \in 1..Len(c) :
                IF i % 2 = 1 THEN c[i] \in Members ELSE c[i] = Comma

\* json.loads(pattern): the dict; of a repeated key the last member stays
JsonLoads(pattern) ==
    LET c == Content(pattern)
        at == {i \in 1..Len(c) : c[i] \in Members}
        keys == {MemberKey(c[i]) : i \in at}
        last(k) == CHOOSE i \in at :
                      /\ MemberKey(c[i]) = k
                      /\ \A j \in at : MemberKey(c[j]) = k => j <= i
    IN  [k \in keys |-> MemberValue(c[last(k)])]

\* graph.py:87: the keys a parsed object needs to count as a call
HasCallKeys(tool_call) ==
    "name" \in DOMAIN tool_call /\ "input" \in DOMAIN tool_call

\* graph.py:84-90: the loop over the regex matches
RECURSIVE CollectCalls(_)
CollectCalls(json_patterns) ==
    IF json_patterns = <<>> THEN <<>>
    ELSE LET pattern == Head(json_patterns)
             rest == CollectCalls(Tail(json_patterns))
         IN  IF JsonValid(pattern) /\ HasCallKeys(JsonLoads(pattern))
             THEN <<JsonLoads(pattern)>> \o rest
             ELSE rest

\* graph.py:76-79: the section the regex scans, parts[1] cut at the end marker
ToolPart(text) == Split(Split(text, StartMarker)[2], EndMarker)[1]

\* graph.py:76: the guard of the extraction
HasToolSection(text) == Contains(text, StartMarker)

\* the extractor without the test of graph.py:76: the whole reply is scanned
ParseToolCalls_NoMarkerTest(text) == CollectCalls(FindAll(text))

ParseToolCalls(text) ==
    IF HasToolSection(text)
    THEN CollectCalls(FindAll(ToolPart(text)))
    ELSE <<>>

---------------------------------------------------------------------------
(* The tool registry and the tools, tools/__init__.py, base.py, search.py,
   zhihu.py *)

\* tools/__init__.py:6-9, the keys of TOOLS
TOOLS == {"search", "zhihu_hot"}

\* a list is unhashable: TOOLS.get(tool_name) raises TypeError on it
Hashable(v) == v # ListValue

\* base.py:61
IsDict(v) == v = EmptyDict

\* an instance of a tool's input schema, which has the schema's attributes;
\* the values json.loads gives (str, list, ...) have none of them
SchemaObject == "input_schema(**input_data)"
HasAttrs(v) == v = SchemaObject

ErrMissingQuery == "validation error: query field required"
ErrNoQuery == "object has no attribute 'query'"
ErrNoLimit == "object has no attribute 'limit'"
ErrNetwork == "connect error"
OutSearch == "results"
OutZhihu == "items"

Returned(v) == [kind |-> "ok", value |-> v]
Raised(e) == [kind |-> "raise", value |-> e]

\* search.py:27-74: _run reads input_data.query (line 46) before it returns
SearchRun(input_obj) ==
    IF HasAttrs(input_obj)
    THEN {Returned(OutSearch), Raised(ErrNetwork)}
    ELSE {Raised(ErrNoQuery)}

\* zhihu.py:27-77: input_data.limit is read once the first API has answered
\* with entries (line 57), and by each call of the fallback (lines 72, 75);
\* an API that answers 200 with no entry leads to an empty list
ZhihuRun(input_obj) ==
    IF HasAttrs(input_obj)
    THEN {Returned(OutZhihu)}
    ELSE {Returned(OutZhihu), Raised(ErrNoLimit)}

\* base.py:50-67 BaseTool.run: a dict is validated against the input schema
\* (search.py:9 query is required, zhihu.py:10 limit has a default), anything
\* else is handed to _run as it is.  The only dict that reaches run is the
\* default {} of graph.py:104.
ToolRun(tool_name, input_data) ==
    IF IsDict(input_data)
    THEN IF tool_name = "search"
         THEN {Raised(ErrMissingQuery)}
         ELSE ZhihuRun(SchemaObject)
    ELSE IF tool_name = "search"
         THEN SearchRun(input_data)
         ELSE ZhihuRun(input_data)

---------------------------------------------------------------------------
(* The dispatcher, graph.py:97-121 *)

\* dict.get(key, default)
Get(d, key, default) == IF key \in DOMAIN d THEN d[key] ELSE default

\* graph.py:103-104
CallName(call) == Get(call, "name", "None")
CallInput(call) == Get(call, "input", EmptyDict)

\* graph.py:106-107: TOOLS.get(tool_name) gives a tool
Registered(call) == CallName(call) \in TOOLS

NoTool == [kind |-> "none", value |-> ""]

\* what one call of the batch can do: nothing runs for a name that is no key
\* of TOOLS, else tool.run returns or raises
CallOutcomes(call) ==
    IF Registered(call)
    THEN ToolRun(CallName(call), CallInput(call))
    ELSE {NoTool}

\* one outcome for each call of the batch
BatchOutcomes(calls) ==
    {oc \in [1..Len(calls) -> UNION {CallOutcomes(calls[i]) : i \in 1..Len(calls)}] :
        \A i \in 1..Len(calls) : oc[i] \in CallOutcomes(calls[i])}

\* graph.py:107-119: what one call appends to tool_results
CallResult(call, oc) ==
    IF ~Registered(call) THEN <<>>
    ELSE IF oc.kind = "ok"
    THEN <<[tool_name |-> CallName(call), result |-> oc.value]>>
    ELSE <<[tool_name |-> CallName(call), error |-> oc.value]>>

\* the loop without the try/except of graph.py:108-119 around one call: the
\* first tool that raises ends the loop
RECURSIVE BuildResults_StopAtError(_, _)
BuildResults_StopAtError(calls, oc) ==
    IF calls = <<>> THEN <<>>
    ELSE IF Head(oc).kind = "raise" THEN <<>>
    ELSE CallResult(Head(calls), Head(oc))
         \o BuildResults_StopAtError(Tail(calls), Tail(oc))

\* graph.py:100-119: the list built by the loop over the calls
RECURSIVE BuildResults(_, _)
BuildResults(calls, oc) ==
    IF calls = <<>> THEN <<>>
    ELSE CallResult(Head(calls), Head(oc)) \o BuildResults(Tail(calls), Tail(oc))

\* graph.py:121: {"tool_results": tool_results, **state}; of a key both have,
\* the later entry, that of state, stays
DispatchReturn(st, tool_results) == st @@ [tool_results |-> tool_results]

---------------------------------------------------------------------------
(* The generation step, graph.py:132-181 *)

PromptHead == "yonghu-wenti: "
ResultsHead == "gongju-zhixing-jieguo:\n"
FailedInfix == " zhixing-shibai: "
ResultInfix == " zhixing-jieguo: "

\* json.dumps(result_data, ensure_ascii=False) of a tool's model_dump()
JsonDumps(result_data) ==
    CASE result_data = OutSearch -> "{\"results\": []}"
      [] result_data = OutZhihu -> "{\"items\": []}"
      [] OTHER -> "{}"

\* graph.py:144-150: user and assistant turns are kept, other roles dropped
RECURSIVE HistoryMessages(_)
HistoryMessages(chat_history) ==
    IF chat_history = <<>> THEN <<>>
    ELSE LET msg == Head(chat_history)
             rest == HistoryMessages(Tail(chat_history))
         IN  IF msg.role = "user"
             THEN <<[type |-> "human", content |-> msg.content]>> \o rest
             ELSE IF msg.role = "assistant"
             THEN <<[type |-> "ai", content |-> msg.content]>> \o rest
             ELSE rest

\* graph.py:158-163: the line of one tool result
RenderResult(result) ==
    IF "error" \in DOMAIN result
    THEN <<result.tool_name, FailedInfix, result.error, Newline>>
    ELSE <<result.tool_name, ResultInfix, JsonDumps(result.result), Newline>>

RECURSIVE RenderResults(_)
RenderResults(tool_results) ==
    IF tool_results = <<>> THEN <<>>
    ELSE RenderResult(Head(tool_results)) \o RenderResults(Tail(tool_results))

\* graph.py:153-163
CurrentPrompt(question, tool_results) ==
    <<PromptHead>> \o question \o <<Newline>> \o
    (IF tool_results # <<>>
     THEN <<ResultsHead>> \o RenderResults(tool_results)
     ELSE <<>>)

\* graph.py:139-140: SYSTEM_PROMPT with the tool catalogue filled in; the local
\* system_prompt is assigned and never read
SystemPrompt == <<"xitong-tishi">>

\* graph.py:134-165: the list handed to llm.invoke
BuildMessages(st) ==
    HistoryMessages(Get(st, "chat_history", <<>>)) \o
    <<[type |-> "human",
       content |-> CurrentPrompt(st.question, Get(st, "tool_results", <<>>))]>>

\* the new state with the prompt written over the question
GenerateReturn_QuestionIsPrompt(st, messages, tool_calls) ==
    [messages |-> messages, tool_calls |-> tool_calls,
     question |-> messages[Len(messages)].content] @@ st

\* graph.py:175-179: {**state, "messages": messages, "tool_calls": tool_calls}
GenerateReturn(st, messages, tool_calls) ==
    [messages |-> messages, tool_calls |-> tool_calls] @@ st

\* the routing with a test of the key in place of the test of the list
ShouldUseTools_KeyTest(st) ==
    IF "tool_calls" \in DOMAIN st THEN "use_tools" ELSE "finish"

\* graph.py:124-129
ShouldUseTools(st) ==
    IF Get(st, "tool_calls", <<>>) # <<>> THEN "use_tools" ELSE "finish"

\* a conditional edge that leads to END on both answers
NextNode_AlwaysFinish(st) == "DONE"

\* graph.py:210-217: the node the conditional edge leads to
NextNode(st) ==
    IF ShouldUseTools(st) = "use_tools" THEN "DISPATCHING" ELSE "DONE"

---------------------------------------------------------------------------
(* The /chat handler, main.py:67-115 *)

Apology == "baoqian"

\* main.py:103-106
ExtractAnswer(content) ==
    IF Contains(content, AnswerMarker)
    THEN LET answer_parts == Split(content, AnswerMarker)
         IN  IF Len(answer_parts) > 1
             THEN Strip(answer_parts[Len(answer_parts)])
             ELSE content
    ELSE content

\* main.py:96-100: the content of the last message of the final state
LastContent(result) ==
    LET messages == Get(result, "messages", <<>>)
    IN  IF messages # <<>> THEN messages[Len(messages)].content ELSE <<>>

\* main.py:108-112
ChatResponse(result) ==
    LET out == IF Get(result, "messages", <<>>) # <<>>
               THEN ExtractAnswer(LastContent(result))
               ELSE <<>>
    IN  [kind |-> "ok",
         answer |-> IF out # <<>> THEN out ELSE <<Apology>>,
         tool_calls |-> Get(result, "tool_calls", <<>>),
         tool_results |-> Get(result, "tool_results", <<>>)]

ErrPrefix == "chuli-qingqiu-shi-chucuo: "

\* main.py:114-115: HTTPException(status_code=500, detail=...)
ErrorResponse(e) == [kind |-> "error", status |-> 500, detail |-> <<ErrPrefix, e>>]

---------------------------------------------------------------------------
(* The inputs: what the caller sends and what the model writes *)

QWord == "q"

\* main.py:38-40 QuestionRequest: a question, and a history that defaults to []
Requests ==
    {[question |-> <<QWord>>, chat_history |-> <<>>],
     [question |-> <<QWord, AnswerMarker, QWord, Newline>>,
      chat_history |-> <<[role |-> "user", content |-> <<"h1">>],
                         [role |-> "system", content |-> <<"h2">>],
                         [role |-> "assistant", content |-> <<"h3">>]>>]}

\* {"name": ..., "input": "x"}
FlatCall(name) == <<LBrace, name, Comma, InputX, RBrace>>
\* {"name": ..., "input": {"query": "x"}}, the shape SYSTEM_PROMPT asks for
NestedCall(name) == <<LBrace, name, Comma, InputKey, LBrace, QueryX, RBrace, RBrace>>
\* {"name": ..., "input": {}}
NestedEmptyCall(name) == <<LBrace, name, Comma, InputKey, LBrace, RBrace, RBrace>>
\* braces around something that is no JSON
Garbage == <<LBrace, Word, RBrace>>
\* {"name": "search"}
NameOnly == <<LBrace, NameSearch, RBrace>>

\* the candidate objects the model stub combines
Candidates ==
    {FlatCall(NameSearch), FlatCall(NameZhihu), FlatCall(NameCalc),
     NestedCall(NameSearch)}

\* up to n candidates in a row
RECURSIVE Bodies(_)
Bodies(n) ==
    IF n = 0 THEN {<<>>}
    ELSE LET prev == Bodies(n - 1)
         IN  prev \cup {b \o c : b \in prev, c \in Candidates}

\* a reply with no marker at all
Unmarked(body) == <<Word>> \o body
\* a reply in the format of SYSTEM_PROMPT
Marked(body) ==
    <<Word, StartMarker>> \o body \o <<EndMarker, Word, AnswerMarker, Word, Newline>>

SpecialOutputs ==
    {<<Word, AnswerMarker, Newline, Word, Newline>>,
     <<StartMarker>> \o FlatCall(NameZhihu),
     <<StartMarker>> \o NestedCall(NameSearch) \o <<EndMarker>>,
     <<StartMarker, EndMarker>> \o FlatCall(NameSearch),
     <<StartMarker>> \o Garbage \o FlatCall(NameZhihu) \o Garbage \o <<EndMarker>>,
     <<StartMarker>> \o Garbage \o <<StartMarker>> \o FlatCall(NameSearch) \o <<EndMarker>>,
     <<StartMarker>> \o NameOnly \o <<EndMarker>>,
     <<StartMarker>> \o NestedEmptyCall(NameZhihu) \o <<EndMarker>>,
     <<StartMarker>> \o FlatCall(NameZhihu) \o FlatCall(NameList) \o <<EndMarker>>}

LLMOutputs ==
    {Unmarked(b) : b \in Bodies(MaxObjs)} \cup {Marked(b) : b \in Bodies(MaxObjs)}
    \cup SpecialOutputs

ErrModel == "model invocation error"
ErrUnhashable == "unhashable type: 'list'"

---------------------------------------------------------------------------
(* The request as a state machine *)

\* main.py:80-85: initial_state has no tool_results
Init ==
    /\ \E request \in Requests :
          state = [question |-> request.question,
                   chat_history |-> request.chat_history,
                   messages |-> <<>>, tool_calls |-> <<>>]
    /\ pc = "GENERATING"
    /\ output = <<>>
    /\ local_results = <<>>
    /\ outcomes = <<>>
    /\ lastStep = "start"
    /\ genCount = 0
    /\ dispatchCount = 0
    /\ response = [kind |-> "none"]
    /\ cancelled = FALSE
    /\ peer = <<>>

\* graph.py:172 for every reply of the model stub
ParsedCalls == [out \in LLMOutputs |-> ParseToolCalls(out)]

\* node generate_response with the model answering, then the conditional edge
Generate ==
    /\ pc = "GENERATING"
    /\ genCount < MaxGen
    /\ LET messages == BuildMessages(state)
       IN  \E out \in LLMOutputs :
              LET new_state == GenerateReturn(state, messages, ParsedCalls[out])
              IN  /\ output' = out
                  /\ state' = new_state
                  /\ pc' = NextNode(new_state)
    /\ genCount' = genCount + 1
    /\ lastStep' = "generate"
    /\ local_results' = <<>>
    /\ outcomes' = <<>>
    /\ UNCHANGED <<dispatchCount, response, cancelled, peer>>

\* llm.invoke raises and the node swallows it: the graph ends as if the model
\* had answered without a tool request
GenerateFail_Swallowed ==
    /\ pc = "GENERATING"
    /\ genCount < MaxGen
    /\ pc' = "DONE"
    /\ lastStep' = "generate_failed"
    /\ UNCHANGED <<state, output, local_results, outcomes, genCount, dispatchCount,
                   response, cancelled, peer>>

\* llm.invoke raises: the exception leaves ainvoke and reaches main.py:114
GenerateFail ==
    /\ pc = "GENERATING"
    /\ genCount < MaxGen
    /\ pc' = "RESPONDED"
    /\ lastStep' = "generate_failed"
    /\ response' = ErrorResponse(ErrModel)
    /\ UNCHANGED <<state, output, local_results, outcomes, genCount, dispatchCount,
                   cancelled, peer>>

\* every name of the batch can be looked up in TOOLS
AllHashable(calls) == \A i \in 1..Len(calls) : Hashable(CallName(calls[i]))

\* node process_tool_calls, then the edge back to generate_response
Dispatch ==
    /\ pc = "DISPATCHING"
    /\ AllHashable(Get(state, "tool_calls", <<>>))
    /\ \E oc \in BatchOutcomes(Get(state, "tool_calls", <<>>)) :
          LET tool_results == BuildResults(Get(state, "tool_calls", <<>>), oc)
          IN  /\ outcomes' = oc
              /\ local_results' = tool_results
              /\ state' = DispatchReturn(state, tool_results)
    /\ pc' = "GENERATING"
    /\ dispatchCount' = dispatchCount + 1
    /\ lastStep' = "dispatch"
    /\ output' = <<>>
    /\ UNCHANGED <<genCount, response, cancelled, peer>>

\* graph.py:106 raises TypeError on a name that is a list: nothing catches it
\* before main.py:114
DispatchCrash ==
    /\ pc = "DISPATCHING"
    /\ ~AllHashable(Get(state, "tool_calls", <<>>))
    /\ pc' = "RESPONDED"
    /\ lastStep' = "dispatch_failed"
    /\ response' = ErrorResponse(ErrUnhashable)
    /\ UNCHANGED <<state, output, local_results, outcomes, genCount, dispatchCount,
                   cancelled, peer>>

\* main.py:88-112: ainvoke has returned the final state
Respond ==
    /\ pc = "DONE"
    /\ pc' = "RESPONDED"
    /\ response' = ChatResponse(state)
    /\ UNCHANGED <<state, output, local_results, outcomes, lastStep, genCount,
                   dispatchCount, cancelled, peer>>

Next == Generate \/ GenerateFail \/ Dispatch \/ DispatchCrash \/ Respond

Spec == Init /\ [][Next]_vars

---------------------------------------------------------------------------
(* The service: two requests in flight, and callers that stop waiting *)

\* main.py:80-85: the locals of a call of chat that has built initial_state
Fresh(request) ==
    [state |-> [question |-> request.question,
                chat_history |-> request.chat_history,
                messages |-> <<>>, tool_calls |-> <<>>],
     pc |-> "GENERATING", output |-> <<>>, local_results |-> <<>>,
     outcomes |-> <<>>, lastStep |-> "start", genCount |-> 0,
     dispatchCount |-> 0, response |-> [kind |-> "none"], cancelled |-> FALSE]

\* the locals of the request that is running
Context ==
    [state |-> state, pc |-> pc, output |-> output,
     local_results |-> local_results, outcomes |-> outcomes,
     lastStep |-> lastStep, genCount |-> genCount,
     dispatchCount |-> dispatchCount, response |-> response,
     cancelled |-> cancelled]

\* the replies of the model stub while two requests are in flight
ServerOutputs ==
    {<<Word>>,
     Marked(FlatCall(NameZhihu)),
     Marked(FlatCall(NameZhihu) \o FlatCall(NameCalc))}

\* two calls of chat, each with an initial_state of its own
InitServer ==
    \E first, second \in Requests :
       /\ state = Fresh(first).state
       /\ pc = Fresh(first).pc
       /\ output = Fresh(first).output
       /\ local_results = Fresh(first).local_results
       /\ outcomes = Fresh(first).outcomes
       /\ lastStep = Fresh(first).lastStep
       /\ genCount = Fresh(first).genCount
       /\ dispatchCount = Fresh(first).dispatchCount
       /\ response = Fresh(first).response
       /\ cancelled = Fresh(first).cancelled
       /\ peer = <<Fresh(second)>>

\* the scheduler resumes the other request with the locals it was suspended
\* with, and gives it a state in common with the running request
Switch_SharedState ==
    /\ peer # <<>>
    /\ peer' = <<Context>>
    /\ state' = state
    /\ pc' = peer[1].pc
    /\ output' = peer[1].output
    /\ local_results' = peer[1].local_results
    /\ outcomes' = peer[1].outcomes
    /\ lastStep' = peer[1].lastStep
    /\ genCount' = peer[1].genCount
    /\ dispatchCount' = peer[1].dispatchCount
    /\ response' = peer[1].response
    /\ cancelled' = peer[1].cancelled

\* main.py:88: at the await the event loop suspends the running request and
\* resumes the other one, each with its own locals
Switch ==
    /\ peer # <<>>
    /\ peer' = <<Context>>
    /\ state' = peer[1].state
    /\ pc' = peer[1].pc
    /\ output' = peer[1].output
    /\ local_results' = peer[1].local_results
    /\ outcomes' = peer[1].outcomes
    /\ lastStep' = peer[1].lastStep
    /\ genCount' = peer[1].genCount
    /\ dispatchCount' = peer[1].dispatchCount
    /\ response' = peer[1].response
    /\ cancelled' = peer[1].cancelled

\* the caller of the running request stops waiting; main.py:78-115 and
\* graph.py have no timeout and no handler for it, so nothing else changes
Cancel ==
    /\ pc # "RESPONDED"
    /\ ~cancelled
    /\ cancelled' = TRUE
    /\ UNCHANGED <<state, pc, output, local_results, outcomes, lastStep, genCount,
                   dispatchCount, response, peer>>

\* a generation step of the running request
ServerGenerate == Generate /\ output' \in ServerOutputs

NextServer ==
    \/ ServerGenerate
    \/ GenerateFail
    \/ Dispatch
    \/ Respond
    \/ Switch
    \/ Cancel

SpecServer == InitServer /\ [][NextServer]_vars

---------------------------------------------------------------------------
(* Properties *)

\* the pending calls and the results held by the state
PendingCalls == Get(state, "tool_calls", <<>>)
StateResults == Get(state, "tool_results", <<>>)

\* obj stands in text, token for token
Occurs(obj, text) ==
    \E k \in 0..(Len(text) - Len(obj)) : SubSeq(text, k + 1, k + Len(obj)) = obj

\* the tokens after the first start marker, up to the first end marker after it
MarkedSection(text) ==
    LET after == SubSeq(text, Find(text, StartMarker) + 1, Len(text))
    IN  IF Contains(after, EndMarker)
        THEN SubSeq(after, 1, Find(after, EndMarker) - 1)
        ELSE after

NameTokens == {NameSearch, NameZhihu, NameCalc}

\* the calls of the batch up to the i-th that name a registered tool
RegisteredUpTo(calls, i) == Cardinality({k \in 1..i : Registered(calls[k])})

\* C1: after a dispatch step every call of the batch whose name is no key of
\* TOOLS has exactly one Failure result {tool_name, "tool not found"} of its
\* own, the dispatch raised nothing, and the loop is back at generation.
C1_UnknownToolFailure ==
    /\ lastStep # "dispatch_failed"
    /\ lastStep = "dispatch" =>
          /\ pc = "GENERATING"
          /\ \A i \in 1..Len(PendingCalls) :
                ~Registered(PendingCalls[i]) =>
                   Cardinality({j \in 1..Len(StateResults) :
                        StateResults[j] = [tool_name |-> CallName(PendingCalls[i]),
                                           error |-> "tool not found"]})
                   = Cardinality({k \in 1..Len(PendingCalls) :
                        CallName(PendingCalls[k]) = CallName(PendingCalls[i])})

\* C2: a dispatch step returns as many results as the batch has calls, and
\* the i-th result carries the tool name of the i-th call.
C2_OneResultPerCall ==
    lastStep = "dispatch" =>
       /\ Len(StateResults) = Len(PendingCalls)
       /\ \A i \in 1..Len(PendingCalls) :
             StateResults[i].tool_name = CallName(PendingCalls[i])

\* C3: a generation step whose output holds a well-formed object
\* {"name": t, "input": {...}} between the markers extracts a call named t;
\* the output "start {"name":"search","input":{"query":"x"}} end" gives
\* exactly one call, named search, and the loop goes to dispatch.
C3_WellFormedExtracted ==
    (lastStep = "generate" /\ Contains(output, StartMarker)) =>
       /\ \A n \in NameTokens : \A obj \in {NestedCall(n), NestedEmptyCall(n)} :
             Occurs(obj, MarkedSection(output)) =>
                \E i \in 1..Len(PendingCalls) :
                   CallName(PendingCalls[i]) = MemberValue(n)
       /\ output = <<StartMarker>> \o NestedCall(NameSearch) \o <<EndMarker>> =>
             /\ Len(PendingCalls) = 1
             /\ CallName(PendingCalls[1]) = "search"
             /\ pc = "DISPATCHING"

\* C4: the answer of a successful response is the latest model output, or
\* what follows the answer marker in that output when the marker is there.
C4_AnswerIsModelText ==
    (pc = "RESPONDED" /\ response.kind = "ok") =>
       response.answer = ExtractAnswer(output)

\* C5: with a budget of MaxGen generation steps, the step that uses up the
\* budget ends the loop (DONE), whatever the model asked for.
C5_LoopBudget ==
    (lastStep = "generate" /\ genCount = MaxGen) => pc \in {"DONE", "RESPONDED"}

\* C6: after every dispatch step the state's tool_results are the results of
\* the calls dispatched in that step, and the prompt of the generation step
\* that follows renders exactly those results.
C6_ResultsAreLatest ==
    /\ [](lastStep = "dispatch" => StateResults = local_results)
    /\ [][(lastStep = "dispatch" /\ lastStep' = "generate") =>
             LastContent(state') = CurrentPrompt(state.question, local_results)]_vars

\* C7: after every generation step either calls are pending and the loop is
\* at dispatch, or no call is pending and the loop is done; a dispatch never
\* starts on an empty batch and no answer is given with calls pending.
C7_PendingXorDone ==
    /\ (lastStep = "generate" /\ pc # "RESPONDED") =>
          \/ (PendingCalls # <<>> /\ pc = "DISPATCHING")
          \/ (PendingCalls = <<>> /\ pc = "DONE")
    /\ pc = "DISPATCHING" => PendingCalls # <<>>
    /\ pc = "DONE" => PendingCalls = <<>>
    /\ (pc = "RESPONDED" /\ response.kind = "ok") => PendingCalls = <<>>

\* a generation step after a dispatch that ends the loop
C7_Witness ==
    lastStep = "generate" /\ pc = "DONE" /\ dispatchCount > 0

\* C8: a generation step whose output holds no start marker extracts no call
\* and ends the loop: no dispatch follows it, and when it is the first step
\* of the request no dispatch has run and the response has no tool_calls.
C8_NoMarkerNoCalls ==
    (lastStep = "generate" /\ ~Contains(output, StartMarker)) =>
       /\ PendingCalls = <<>>
       /\ pc \in {"DONE", "RESPONDED"}
       /\ genCount = 1 => dispatchCount = 0
       /\ pc = "RESPONDED" => (response.kind = "ok" /\ response.tool_calls = <<>>)

\* a first reply with a complete call object and no start marker, answered
C8_Witness ==
    /\ lastStep = "generate"
    /\ genCount = 1
    /\ pc = "RESPONDED"
    /\ ~Contains(output, StartMarker)
    /\ Occurs(FlatCall(NameSearch), output)

\* C9: after a dispatch step the list the loop built holds, for every call to
\* a registered tool and in the order of the calls, one result with the
\* tool's name; it is a Failure with the exception's message when the tool
\* raised; no call after a failing one is left out, and the loop goes on.
C9_ToolFailureIsolated ==
    lastStep = "dispatch" =>
       /\ pc = "GENERATING"
       /\ Len(local_results) = RegisteredUpTo(PendingCalls, Len(PendingCalls))
       /\ \A i \in 1..Len(PendingCalls) :
             Registered(PendingCalls[i]) =>
                LET r == local_results[RegisteredUpTo(PendingCalls, i)]
                IN  /\ r.tool_name = CallName(PendingCalls[i])
                    /\ outcomes[i].kind = "raise" =>
                          r = [tool_name |-> CallName(PendingCalls[i]),
                               error |-> outcomes[i].value]
                    /\ outcomes[i].kind = "ok" => "error" \notin DOMAIN r

\* a batch whose first tool raised and whose second tool ran and returned
C9_Witness ==
    /\ lastStep = "dispatch"
    /\ Len(PendingCalls) >= 2
    /\ outcomes[1].kind = "raise"
    /\ outcomes[2].kind = "ok"

\* C10: once llm.invoke has raised, the request is over: the caller has one
\* error response with a message and with no answer, tool_calls or
\* tool_results, and no generation, dispatch or answer step can follow.
C10_ModelFailureAborts ==
    lastStep = "generate_failed" =>
       /\ pc = "RESPONDED"
       /\ response.kind = "error"
       /\ response.detail = <<ErrPrefix, ErrModel>>
       /\ DOMAIN response \cap {"answer", "tool_calls", "tool_results"} = {}
       /\ ~ENABLED Next

\* the model fails in a later step, with tool results already in the state
C10_Witness ==
    /\ lastStep = "generate_failed"
    /\ dispatchCount > 0
    /\ StateResults # <<>>

\* C11: a generation step whose tool-request section holds the object
\* {"name": "search"}, with no "input" member, extracts a call named search
\* whose input is the empty mapping.
C11_NameOnlyExtracted ==
    (lastStep = "generate" /\ Contains(output, StartMarker)
       /\ Occurs(NameOnly, MarkedSection(output))) =>
       \E i \in 1..Len(PendingCalls) :
          /\ CallName(PendingCalls[i]) = MemberValue(NameSearch)
          /\ CallInput(PendingCalls[i]) = EmptyDict

\* C12: the section that is scanned runs from the first start marker to the
\* first end marker: a call object that stands after a second start marker and
\* before the first end marker is extracted.
C12_FirstStartToFirstEnd ==
    (lastStep = "generate" /\ Contains(output, StartMarker)) =>
       \A n \in NameTokens :
          (/\ Occurs(FlatCall(n), MarkedSection(output))
           /\ Contains(MarkedSection(output), StartMarker)) =>
             \E i \in 1..Len(PendingCalls) :
                /\ CallName(PendingCalls[i]) = MemberValue(n)
                /\ CallInput(PendingCalls[i]) = MemberValue(InputX)

\* the call objects a reply can hold for the tool name n
CallObjects(n) == {FlatCall(n), NestedCall(n), NestedEmptyCall(n)}

\* C13: every generation step returns from the extractor; every extracted
\* call has a name and an input; and every valid call object of the section
\* is extracted, whatever candidates that are no call stand next to it.
C13_ValidCallsSurvive ==
    (lastStep = "generate" /\ Contains(output, StartMarker)) =>
       /\ \A i \in 1..Len(PendingCalls) : HasCallKeys(PendingCalls[i])
       /\ \A n \in NameTokens : \A obj \in CallObjects(n) :
             Occurs(obj, MarkedSection(output)) =>
                \E i \in 1..Len(PendingCalls) :
                   CallName(PendingCalls[i]) = MemberValue(n)

\* what a request that ran alone satisfies: it holds tool results only when it
\* has dispatched, messages only when it has generated, its latest prompt is
\* made of its own question and results, and its answer is read from its own
\* final state
SoloConsistent(ctx) ==
    /\ ("tool_results" \in DOMAIN ctx.state) = (ctx.dispatchCount > 0)
    /\ (ctx.state.messages # <<>>) = (ctx.genCount > 0)
    /\ ctx.lastStep = "generate" =>
          LastContent(ctx.state)
             = CurrentPrompt(ctx.state.question, Get(ctx.state, "tool_results", <<>>))
    /\ ctx.response.kind = "ok" => ctx.response = ChatResponse(ctx.state)

\* C14: with two requests in flight, a step of the running request leaves the
\* locals of the suspended request as they are, a switch hands each request
\* exactly the locals it was suspended with, and so each request is at all
\* times in a state it can be in when it runs alone.
C14_RequestsIsolated ==
    /\ [](SoloConsistent(Context) /\ SoloConsistent(peer[1]))
    /\ [][\/ peer' = peer
          \/ (peer' = <<Context>> /\ Context' = peer[1])]_vars

\* one request has answered from its tool results while the other one, with
\* another question, waits for its dispatch
C14_Witness ==
    /\ pc = "RESPONDED"
    /\ response.kind = "ok"
    /\ dispatchCount > 0
    /\ peer[1].pc = "DISPATCHING"
    /\ peer[1].state.question # state.question

\* C15: once the caller of a request has stopped waiting, no generation and
\* no dispatch of that request completes any more, and the request ends with
\* an error, never with an answer.
C15_CancelAborts ==
    /\ []((cancelled /\ pc = "RESPONDED") => response.kind = "error")
    /\ [][(cancelled /\ peer' = peer) =>
             (genCount' = genCount /\ dispatchCount' = dispatchCount)]_vars

\* C16: the messages handed to the model in a generation step are the system
\* instructions, then the chat history in its order, then the prompt with the
\* question and the rendering of the tool results of the state.
C16_PromptComposition ==
    lastStep = "generate" =>
       LET messages == Get(state, "messages", <<>>)
           history == Get(state, "chat_history", <<>>)
       IN  /\ Len(messages) = Len(history) + 2
           /\ messages[1] = [type |-> "system", content |-> SystemPrompt]
           /\ \A i \in 1..Len(history) :
                 messages[i + 1].content = history[i].content
           /\ LastContent(state) = CurrentPrompt(state.question, StateResults)

\* a is the start of b
IsPrefix(a, b) == Len(a) <= Len(b) /\ SubSeq(b, 1, Len(a)) = a

\* C17: a generation step only appends to messages: the value before the step
\* is a prefix of the value after it, and the value after it ends with the
\* response of the model.
C17_MessagesAppendOnly ==
    [][lastStep' = "generate" /\ genCount' = genCount + 1 =>
          /\ IsPrefix(Get(state, "messages", <<>>), Get(state', "messages", <<>>))
          /\ LastContent(state') = output']_vars

\* C18: generation and dispatch alternate: a dispatch step is always followed
\* by a generation step, a generation step never follows a generation step,
\* a dispatch step only follows a generation step, DONE is entered only from
\* GENERATING, and each generation step is one call of the model.
C18_StrictAlternation ==
    [][/\ pc = "DISPATCHING" => (pc' = "GENERATING" /\ lastStep' = "dispatch")
       /\ pc' = "DONE" => pc = "GENERATING"
       /\ lastStep' = "dispatch" => (lastStep = "generate" /\ genCount' = genCount)
       /\ genCount' # genCount =>
             /\ genCount' = genCount + 1
             /\ pc = "GENERATING"
             /\ lastStep \in {"start", "dispatch"}]_vars

\* the names of the flat call objects of a text, in their order
RECURSIVE FlatNames(_)
FlatNames(text) ==
    IF text = <<>> THEN <<>>
    ELSE IF \E n \in NameTokens \cup {NameList} : IsPrefix(FlatCall(n), text)
         THEN LET n == CHOOSE m \in NameTokens \cup {NameList} :
                          IsPrefix(FlatCall(m), text)
              IN  <<MemberValue(n)>> \o
                  FlatNames(SubSeq(text, Len(FlatCall(n)) + 1, Len(text)))
         ELSE FlatNames(Tail(text))

\* C19: the calls are extracted in the order of their objects, an object that
\* repeats a tool name is a call of its own, and after the dispatch the two
\* calls of one name have a result each, at the places of the calls.
C19_OrderAndDuplicates ==
    /\ (lastStep = "generate" /\ Contains(output, StartMarker)
          /\ ~Contains(MarkedSection(output), StartMarker)) =>
          [i \in 1..Len(PendingCalls) |-> CallName(PendingCalls[i])]
             = FlatNames(MarkedSection(output))
    /\ (lastStep = "dispatch" /\ dispatchCount = 1) =>
          \A i, j \in 1..Len(PendingCalls) :
             (i < j /\ CallName(PendingCalls[i]) = CallName(PendingCalls[j])) =>
                /\ Len(StateResults) >= j
                /\ StateResults[i].tool_name = CallName(PendingCalls[i])
                /\ StateResults[j].tool_name = CallName(PendingCalls[j])

\* C20: when a dispatch step has returned, no call is pending in the state.
C20_PendingCleared ==
    lastStep = "dispatch" => PendingCalls = <<>>

\* C21: no step changes the question or the chat_history of the state: in
\* every reachable state of a request they are a request's question and
\* history, as the caller sent them.
C21_RequestImmutable ==
    /\ [](\E request \in Requests :
             /\ state.question = request.question
             /\ state.chat_history = request.chat_history)
    /\ [][/\ state'.question = state.question
          /\ state'.chat_history = state.chat_history]_vars

\* a second dispatch has returned in a request that came with a history
C21_Witness ==
    /\ lastStep = "dispatch"
    /\ dispatchCount >= 2
    /\ state.chat_history # <<>>
    /\ StateResults # <<>>

====
